---- MODULE Spec2Model ----
(***************************************************************************)
(* Model of main.py: the "AI PR Manager" form handler.  One submission of  *)
(* the form runs fetch_pr_data, fetch_pr_diff, generate_structured_review  *)
(* and display_review_report in sequence.  The model records every network *)
(* call (net), every time.sleep (slept) and every widget call (ui).        *)
(***************************************************************************)
EXTENDS Integers, Sequences, FiniteSets, TLC

VARIABLES
    GITHUB_TOKEN,         \* module global, os.getenv("GITHUB_TOKEN")
    ANALYSIS_AUTH_TOKEN,  \* module global, os.getenv("GEMINI_API_KEY")
    repo_owner,           \* st.text_input("Repository Owner")
    repo_name,            \* st.text_input("Repository Name")
    pr_id,                \* st.number_input("PR Number", min_value=1, step=1)
    pc,                   \* position inside the submit handler
    pr_data,              \* result of fetch_pr_data
    pr_changes,           \* result of fetch_pr_diff
    review_data,          \* result of generate_structured_review
    net,                  \* requests.get / requests.post calls issued, in order
    slept,                \* arguments of time.sleep calls, in order
    ui                    \* streamlit calls made, in order

vars == << GITHUB_TOKEN, ANALYSIS_AUTH_TOKEN, repo_owner, repo_name, pr_id, pc,
           pr_data, pr_changes, review_data, net, slept, ui >>

----------------------------------------------------------------------------
(* Bounds *)

MaxPr == 2
MaxIssues == 3

----------------------------------------------------------------------------
(* Python values.  Every value is a record tagged with its type.           *)

None == [kind |-> "None"]
Str(s) == [kind |-> "str", s |-> s]
List(e) == [kind |-> "list", elems |-> e]
Dict(f) == [kind |-> "dict", items |-> f]
Raise(exc) == [kind |-> "raise", exc |-> exc]
\* a str whose content is the JSON serialisation of doc
JsonText(doc) == [kind |-> "str", json |-> doc]

IsRaise(v) == v.kind = "raise"

\* Python truthiness, as used by `not x` and `if x:`
Truthy(v) ==
    CASE v.kind = "None" -> FALSE
      [] v.kind = "str"  -> IF "s" \in DOMAIN v THEN v.s # "" ELSE TRUE
      [] v.kind = "list" -> Len(v.elems) > 0
      [] v.kind = "dict" -> DOMAIN v.items # {}

\* v[key] for a str key
GetKey(v, key) ==
    CASE v.kind = "raise" -> v
      [] v.kind = "dict"  -> IF key \in DOMAIN v.items THEN v.items[key]
                             ELSE Raise("KeyError")
      [] v.kind \in {"None", "list", "str"} -> Raise("TypeError")

\* v[i] for an int index i >= 0
GetIndex(v, i) ==
    CASE v.kind = "raise" -> v
      [] v.kind = "list"  -> IF i < Len(v.elems) THEN v.elems[i + 1]
                             ELSE Raise("IndexError")
      [] v.kind = "dict"  -> Raise("KeyError")
      [] v.kind = "None"  -> Raise("TypeError")

\* d.get(key, default) on a dict; AttributeError on a value without .get
DictGet(d, key, default) ==
    CASE d.kind = "raise" -> d
      [] d.kind = "dict"  -> IF key \in DOMAIN d.items THEN d.items[key] ELSE default
      [] d.kind \in {"None", "list", "str"} -> Raise("AttributeError")

\* what the JSON texts null and [] decode to
JsonLiterals == [null |-> None, emptylist |-> List(<< >>)]

\* json.loads(s)
json_loads(v) ==
    CASE v.kind = "raise" -> v
      [] v.kind = "str" /\ "json" \in DOMAIN v -> v.json
      [] v.kind = "str" /\ "s" \in DOMAIN v ->
            IF v.s = "null" THEN JsonLiterals.null
            ELSE IF v.s = "[]" THEN JsonLiterals.emptylist
            ELSE Raise("JSONDecodeError")
      [] v.kind \in {"None", "list", "dict"} -> Raise("TypeError")

----------------------------------------------------------------------------
(* Streamlit calls and network calls, as recorded in ui and net.           *)

st_error(text) == [call |-> "error", text |-> text]
st_error_e(text, e) == [call |-> "error", text |-> text, e |-> e]
st_success(text) == [call |-> "success", text |-> text]
st_subheader(text) == [call |-> "subheader", text |-> text]
st_markdown(text) == [call |-> "markdown", text |-> text]
st_markdown_v(v) == [call |-> "markdown", value |-> v]
st_code(v) == [call |-> "code", value |-> v, language |-> "python"]
st_json(v) == [call |-> "json", value |-> v]
st_divider == [call |-> "divider"]
st_expander(label, n, expanded) ==
    [call |-> "expander", label |-> label, count |-> n, expanded |-> expanded]
\* an exception that leaves the script uncaught
Uncaught(exc) == [call |-> "exception", exc |-> exc]

requests_get(accept) == [method |-> "GET", accept |-> accept]
requests_post == [method |-> "POST", timeout |-> 180]

----------------------------------------------------------------------------
(* The environment: credentials, form input, and what the remote ends      *)
(* answer.                                                                 *)

\* os.getenv gives None for an unset variable, or the string
Credentials(tok) == {None, Str(""), Str(tok)}

min_value == 1
Owners == {"", "octo"}
Repos == {"", "demo"}
PrNumbers == min_value .. MaxPr

\* what requests raises: connection error, timeout, raise_for_status()
RequestExceptions == {"ConnectionError", "Timeout", "HTTPError"}

\* pull request documents of the GitHub API (body is null for an empty description)
PrDetailsDocs ==
    { Dict([title |-> Str("Fix bug"), body |-> Str("Closes #3")]),
      Dict([title |-> Str("Fix bug"), body |-> None]),
      Dict([number |-> Str("7")]) }

DiffTexts == { Str(""), Str("diff --git a/x b/x") }

\* --- what the completion endpoint answers ---

Absent == [kind |-> "absent"]   \* marks a key left out of a document

\* severity values the endpoint sends; "-" stands for an issue without the key
SeverityChoices == {"CRITICAL", "MAJOR", "MINOR", "critical", "-"}

\* the i-th issue of a report; its description tells the issues apart
MkIssue(i, sev) ==
    IF sev = "-"
    THEN Dict([file_path |-> Str("x"), description |-> Str(ToString(i))])
    ELSE Dict([file_path |-> Str("x"), severity |-> Str(sev),
               description |-> Str(ToString(i)),
               fix_suggestion_code |-> Str("fix")])

IssueLists ==
    UNION { { List([i \in 1..n |-> MkIssue(i, f[i])]) : f \in [1..n -> SeverityChoices] }
            : n \in 0..MaxIssues }

ReportKeys == {"summary", "review_report", "full_corrected_code"}

MkReport(summary, issues, code) ==
    LET fields == [summary |-> summary, review_report |-> issues,
                   full_corrected_code |-> code]
        keys == {k \in ReportKeys : fields[k] # Absent}
    IN  Dict([k \in keys |-> fields[k]])

Reports ==
    { MkReport(s, i, c) : s \in {Absent, Str("ok")},
                          i \in {Absent} \cup IssueLists,
                          c \in {Absent, Str(""), Str("x = 1")} }

\* the provider's envelope around a text part
Envelope(text) ==
    Dict([candidates |-> List(<< Dict([content |->
            Dict([role |-> Str("model"),
                  parts |-> List(<< Dict([text |-> text]) >>)]),
          finishReason |-> Str("STOP")]) >>)])

\* envelopes in which candidates[0].content.parts[0].text is missing
PathAbsentEnvelopes ==
    { Dict([promptFeedback |-> Str("SAFETY")]),
      Dict([candidates |-> List(<< >>)]),
      Dict([candidates |-> List(<< Dict([finishReason |-> Str("SAFETY")]) >>)]),
      Dict([candidates |-> List(<< Dict([content |-> Dict([role |-> Str("model")])]) >>)]),
      Dict([candidates |-> List(<< Dict([content |->
            Dict([role |-> Str("model"), parts |-> List(<< >>)])]) >>)]),
      Dict([candidates |-> List(<< Dict([content |->
            Dict([role |-> Str("model"),
                  parts |-> List(<< Dict([inlineData |-> Str("...")]) >>)])]) >>)]) }

\* envelopes whose text is no JSON document
BadJsonEnvelopes == { Envelope(Str("not json")), Envelope(Str("")) }

\* envelopes with a value of another type on the path, or a document that is
\* JSON but no object
OtherEnvelopes ==
    { Dict([candidates |-> None]),
      Envelope(None),
      Envelope(Str("null")),
      Envelope(Str("[]")) }

Envelopes ==
    { Envelope(JsonText(r)) : r \in Reports }
        \cup PathAbsentEnvelopes \cup BadJsonEnvelopes \cup OtherEnvelopes

\* response.json() of the completion endpoint may also be the empty object
CompletionBodies == Envelopes \cup { Dict(<< >>) }

----------------------------------------------------------------------------
(* display_review_report, as the sequence of streamlit calls it makes.     *)

\* an except clause that forgets IndexError
FormatErrors_NoIndexError == {"KeyError", "JSONDecodeError"}

\* the exceptions the except clause of display_review_report names
FormatErrors == {"KeyError", "IndexError", "JSONDecodeError"}

\* review_data['candidates'][0]['content']['parts'][0]['text']
report_content_str(rd) ==
    GetKey(GetIndex(GetKey(GetKey(GetIndex(GetKey(rd, "candidates"), 0),
                                  "content"), "parts"), 0), "text")

HasSeverity(issue, sev) == DictGet(issue, "severity", None) = Str(sev)

\* a filter that compares severities without regard to case
critical_issues_AnyCase(issues) ==
    SelectSeq(issues, LAMBDA i : HasSeverity(i, "CRITICAL") \/ HasSeverity(i, "critical"))

critical_issues(issues) == SelectSeq(issues, LAMBDA i : HasSeverity(i, "CRITICAL"))
major_issues(issues) == SelectSeq(issues, LAMBDA i : HasSeverity(i, "MAJOR"))
minor_issues(issues) == SelectSeq(issues, LAMBDA i : HasSeverity(i, "MINOR"))

\* a call made inside `with st.expander(label)`
Within(label, entry) == entry @@ [within |-> label]

\* `if group: with st.expander(f"{label} ({len(group)})") ...: for issue in group: ...`
RenderGroup(label, expanded, group) ==
    IF Len(group) = 0 THEN << >>
    ELSE << st_expander(label, Len(group), expanded) >> \o
         [k \in 1..(3 * Len(group)) |->
            LET issue == group[((k - 1) \div 3) + 1]
                slot == (k - 1) % 3
            IN  CASE slot = 0 ->
                       Within(label, [call |-> "markdown", text |-> "**Description:** ",
                                      value |-> DictGet(issue, "description", Str("N/A"))])
                  [] slot = 1 ->
                       Within(label, st_code(DictGet(issue, "fix_suggestion_code",
                                                     Str("# No suggestion provided"))))
                  [] slot = 2 -> Within(label, st_markdown("---"))]

\* `if full_code:` and the block under it
RenderFullCode(full_code) ==
    IF Truthy(full_code)
    THEN << st_markdown("---"),
            st_subheader("Complete Suggested Code"),
            st_markdown("The following code block contains all suggested fixes and can be used to replace the original file."),
            st_code(full_code) >>
    ELSE << >>

\* the part of display_review_report after the report was parsed
RenderReport(report) ==
    LET summary == DictGet(report, "summary", Str("No summary provided."))
        issues == DictGet(report, "review_report", List(<< >>))
        full_code == DictGet(report, "full_corrected_code", None)
        head == << st_subheader("Review Summary"), st_markdown_v(summary) >>
    IN  IF IsRaise(summary) THEN << Uncaught(summary.exc) >>
        ELSE IF ~Truthy(issues)
        THEN head \o << st_success("No Specific Issues Found.") >>
        ELSE head \o << st_markdown("---") >>
                  \o RenderGroup("Critical Issues", TRUE, critical_issues(issues.elems))
                  \o RenderGroup("Major Issues", FALSE, major_issues(issues.elems))
                  \o RenderGroup("Minor Issues", FALSE, minor_issues(issues.elems))
                  \o RenderFullCode(full_code)

display_review_report(rd) ==
    LET report == json_loads(report_content_str(rd))
    IN  IF IsRaise(report)
        THEN IF report.exc \in FormatErrors
             THEN << st_error("Failed AI Response. Format Error."), st_json(rd) >>
             ELSE << Uncaught(report.exc) >>
        ELSE RenderReport(report)

----------------------------------------------------------------------------
(* The three remote calls.  Each gives the value returned (ret), the       *)
(* network calls issued (net) and the streamlit calls made (ui), for one   *)
(* answer of the remote end: Raise(e) or the body received.                *)

fetch_pr_data(answer) ==
    IF ~Truthy(GITHUB_TOKEN)
    THEN [ret |-> None, net |-> << >>,
          ui |-> << st_error("GitHub Token Not Connected") >>]
    ELSE IF IsRaise(answer)
    THEN [ret |-> None, net |-> << requests_get("application/vnd.github.v3+json") >>,
          ui |-> << st_error_e("Error Fetching PR Details: ", answer.exc) >>]
    ELSE [ret |-> Dict([title |-> DictGet(answer, "title", Str("")),
                        body |-> DictGet(answer, "body", Str(""))]),
          net |-> << requests_get("application/vnd.github.v3+json") >>,
          ui |-> << >>]

fetch_pr_diff(answer) ==
    IF ~Truthy(GITHUB_TOKEN)
    THEN [ret |-> None, net |-> << >>,
          ui |-> << st_error("GitHub Token Not Connected.") >>]
    ELSE IF IsRaise(answer)
    THEN [ret |-> None, net |-> << requests_get("application/vnd.github.v3.diff") >>,
          ui |-> << st_error_e("Error Fetching PR Diff: ", answer.exc) >>]
    ELSE [ret |-> answer,
          net |-> << requests_get("application/vnd.github.v3.diff") >>,
          ui |-> << >>]

\* a completion client that does not look at its key before posting
generate_structured_review_NoKeyCheck(answer) ==
    IF IsRaise(answer)
    THEN [ret |-> None, net |-> << requests_post >>, slept |-> << >>,
          ui |-> << st_error_e("Failed Review: ", answer.exc) >>]
    ELSE [ret |-> answer, net |-> << requests_post >>, slept |-> << >>,
          ui |-> << >>]

\* one POST, no loop: the except clause reports and returns None
generate_structured_review(answer) ==
    IF ~Truthy(ANALYSIS_AUTH_TOKEN)
    THEN [ret |-> None, net |-> << >>, slept |-> << >>,
          ui |-> << st_error("Gemini API Key Not Connected") >>]
    ELSE IF IsRaise(answer)
    THEN [ret |-> None, net |-> << requests_post >>, slept |-> << >>,
          ui |-> << st_error_e("Failed Review: ", answer.exc) >>]
    ELSE [ret |-> answer, net |-> << requests_post >>, slept |-> << >>,
          ui |-> << >>]

----------------------------------------------------------------------------
(* The form and its submit handler.                                        *)

Unset == [kind |-> "unset"]   \* a name not yet bound

Init ==
    /\ GITHUB_TOKEN \in Credentials("ghp_token")
    /\ ANALYSIS_AUTH_TOKEN \in Credentials("api_key")
    /\ repo_owner = ""
    /\ repo_name = ""
    /\ pr_id = min_value
    /\ pc = "form"
    /\ pr_data = Unset
    /\ pr_changes = Unset
    /\ review_data = Unset
    /\ net = << >>
    /\ slept = << >>
    /\ ui = << >>

\* a handler that validates the owner and the number only
Submit_NoRepoCheck ==
    /\ pc = "form"
    /\ \E o \in Owners, r \in Repos, n \in PrNumbers :
        /\ repo_owner' = o
        /\ repo_name' = r
        /\ pr_id' = n
        /\ IF o = "" \/ n = 0
           THEN /\ ui' = Append(ui, st_error("Please Fill all the Fields"))
                /\ pc' = "done"
           ELSE /\ ui' = ui
                /\ pc' = "fetch_pr_data"
    /\ UNCHANGED << GITHUB_TOKEN, ANALYSIS_AUTH_TOKEN, pr_data, pr_changes,
                    review_data, net, slept >>

\* the user fills the form and presses "Generate Review"; lines 165-168
Submit ==
    /\ pc = "form"
    /\ \E o \in Owners, r \in Repos, n \in PrNumbers :
        /\ repo_owner' = o
        /\ repo_name' = r
        /\ pr_id' = n
        /\ IF o = "" \/ r = "" \/ n = 0
           THEN /\ ui' = Append(ui, st_error("Please Fill all the Fields"))
                /\ pc' = "done"
           ELSE /\ ui' = ui
                /\ pc' = "fetch_pr_data"
    /\ UNCHANGED << GITHUB_TOKEN, ANALYSIS_AUTH_TOKEN, pr_data, pr_changes,
                    review_data, net, slept >>

\* line 170
FetchPrData ==
    /\ pc = "fetch_pr_data"
    /\ \E answer \in {Raise(e) : e \in RequestExceptions} \cup PrDetailsDocs :
        LET r == fetch_pr_data(answer)
        IN  /\ pr_data' = r.ret
            /\ net' = net \o r.net
            /\ ui' = ui \o r.ui
    /\ pc' = "fetch_pr_diff"
    /\ UNCHANGED << GITHUB_TOKEN, ANALYSIS_AUTH_TOKEN, repo_owner, repo_name, pr_id,
                    pr_changes, review_data, slept >>

\* line 171
FetchPrDiff ==
    /\ pc = "fetch_pr_diff"
    /\ \E answer \in {Raise(e) : e \in RequestExceptions} \cup DiffTexts :
        LET r == fetch_pr_diff(answer)
        IN  /\ pr_changes' = r.ret
            /\ net' = net \o r.net
            /\ ui' = ui \o r.ui
    /\ pc' = "check"
    /\ UNCHANGED << GITHUB_TOKEN, ANALYSIS_AUTH_TOKEN, repo_owner, repo_name, pr_id,
                    pr_data, review_data, slept >>

\* a handler that tests the metadata only
CheckFetched_OnlyData ==
    /\ pc = "check"
    /\ IF Truthy(pr_data)
       THEN /\ pc' = "generate"
            /\ ui' = ui
       ELSE /\ pc' = "done"
            /\ ui' = Append(ui, st_error("Failed to Fetch Request Data. Please check the Details."))
    /\ UNCHANGED << GITHUB_TOKEN, ANALYSIS_AUTH_TOKEN, repo_owner, repo_name, pr_id,
                    pr_data, pr_changes, review_data, net, slept >>

\* `if pr_data and pr_changes:` and its else branch; lines 173, 183-184
CheckFetched ==
    /\ pc = "check"
    /\ IF Truthy(pr_data) /\ Truthy(pr_changes)
       THEN /\ pc' = "generate"
            /\ ui' = ui
       ELSE /\ pc' = "done"
            /\ ui' = Append(ui, st_error("Failed to Fetch Request Data. Please check the Details."))
    /\ UNCHANGED << GITHUB_TOKEN, ANALYSIS_AUTH_TOKEN, repo_owner, repo_name, pr_id,
                    pr_data, pr_changes, review_data, net, slept >>

\* lines 174-179 and 181-182
GenerateReview ==
    /\ pc = "generate"
    /\ \E answer \in {Raise(e) : e \in RequestExceptions \cup {"JSONDecodeError"}}
                        \cup CompletionBodies :
        LET r == generate_structured_review(answer)
        IN  /\ review_data' = r.ret
            /\ net' = net \o r.net
            /\ slept' = slept \o r.slept
            /\ IF Truthy(r.ret)
               THEN /\ ui' = ui \o r.ui \o << st_divider, st_success("Analysis Complete") >>
                    /\ pc' = "display"
               ELSE /\ ui' = ui \o r.ui \o << st_divider, st_success("Analysis Complete"),
                                             st_error("Could not generate the Review Report.") >>
                    /\ pc' = "done"
    /\ UNCHANGED << GITHUB_TOKEN, ANALYSIS_AUTH_TOKEN, repo_owner, repo_name, pr_id,
                    pr_data, pr_changes >>

\* line 180
DisplayReview ==
    /\ pc = "display"
    /\ ui' = ui \o display_review_report(review_data)
    /\ pc' = "done"
    /\ UNCHANGED << GITHUB_TOKEN, ANALYSIS_AUTH_TOKEN, repo_owner, repo_name, pr_id,
                    pr_data, pr_changes, review_data, net, slept >>

Next ==
    \/ Submit
    \/ FetchPrData
    \/ FetchPrDiff
    \/ CheckFetched
    \/ GenerateReview
    \/ DisplayReview

Spec == Init /\ [][Next]_vars

----------------------------------------------------------------------------
(* Properties.                                                             *)

NetCount(m) == Cardinality({i \in DOMAIN net : net[i].method = m})
GetCount(accept) ==
    Cardinality({i \in DOMAIN net : net[i].method = "GET" /\ net[i].accept = accept})
Shown(entry) == \E i \in DOMAIN ui : ui[i] = entry
CallCount(c) == Cardinality({i \in DOMAIN ui : ui[i].call = c})

\* generate_structured_review ran with a key and every POST of it failed
AllPostsFailed ==
    /\ pc = "done"
    /\ review_data = None
    /\ Truthy(ANALYSIS_AUTH_TOKEN)

\* C1: when every POST to the completion endpoint fails, one invocation of
\* generate_structured_review has made exactly 5 POST attempts when it returns
\* the failure: never fewer, never a 6th.
C1_ExactlyFiveAttempts ==
    AllPostsFailed => NetCount("POST") = 5

\* C2: when every POST fails, failed attempts 1..4 are each followed by a
\* warning and a sleep of 2^k seconds (2, 4, 8, 16 in that order), and the
\* failed 5th attempt is reported without a sleep.
C2_BackoffSleeps ==
    AllPostsFailed =>
        /\ slept = << 2, 4, 8, 16 >>
        /\ CallCount("warning") = 4
        /\ CallCount("error") >= 1

\* C3: with a required credential absent or empty, the component that needs
\* it issues no network call, reports an error and returns the failure value:
\* fetch_pr_data and fetch_pr_diff issue no GET without the GitHub token,
\* generate_structured_review issues no POST without the completion API key.
C3_NoCredentialNoCall ==
    /\ (pr_data # Unset /\ ~Truthy(GITHUB_TOKEN)) =>
          /\ pr_data = None
          /\ GetCount("application/vnd.github.v3+json") = 0
          /\ Shown(st_error("GitHub Token Not Connected"))
    /\ (pr_changes # Unset /\ ~Truthy(GITHUB_TOKEN)) =>
          /\ pr_changes = None
          /\ GetCount("application/vnd.github.v3.diff") = 0
          /\ Shown(st_error("GitHub Token Not Connected."))
    /\ (review_data # Unset /\ ~Truthy(ANALYSIS_AUTH_TOKEN)) =>
          /\ review_data = None
          /\ NetCount("POST") = 0
          /\ Shown(st_error("Gemini API Key Not Connected"))
    /\ ~Truthy(GITHUB_TOKEN) => NetCount("GET") = 0
    /\ ~Truthy(ANALYSIS_AUTH_TOKEN) => NetCount("POST") = 0

\* the completion client was invoked without a key (both fetches succeeded)
C3_Witness ==
    /\ pc = "done"
    /\ review_data = None
    /\ ~Truthy(ANALYSIS_AUTH_TOKEN)
    /\ NetCount("GET") = 2

\* C4: a submission with an empty owner, an empty repository name or a PR
\* number that is not at least 1 reports a validation error and issues no
\* network call at all.
C4_ValidationBeforeNetwork ==
    (pc # "form" /\ (repo_owner = "" \/ repo_name = "" \/ pr_id < 1)) =>
        /\ pc = "done"
        /\ net = << >>
        /\ ui = << st_error("Please Fill all the Fields") >>
        /\ pr_data = Unset /\ pr_changes = Unset /\ review_data = Unset

\* a submission lacking only the repository name, with both credentials set
C4_Witness ==
    /\ pc = "done"
    /\ repo_owner # "" /\ repo_name = ""
    /\ Truthy(GITHUB_TOKEN) /\ Truthy(ANALYSIS_AUTH_TOKEN)

\* C5: the completion client is invoked, and a completion POST issued, only
\* if both fetches of the run succeeded; if either fetch failed no POST is
\* ever issued in the run and the fetch failure is reported.
C5_CompletionOnlyAfterBothFetches ==
    /\ (NetCount("POST") > 0 \/ review_data # Unset \/ pc \in {"generate", "display"}) =>
          /\ pr_data.kind = "dict"
          /\ pr_changes.kind = "str"
    /\ (pr_data = None \/ pr_changes = None) =>
          /\ NetCount("POST") = 0
          /\ review_data = Unset
          /\ CallCount("error") >= 1
          /\ pc = "done" =>
                Shown(st_error("Failed to Fetch Request Data. Please check the Details."))

\* the metadata fetch succeeded, the diff fetch failed on the network
C5_Witness ==
    /\ pc = "done"
    /\ pr_data.kind = "dict"
    /\ pr_changes = None
    /\ Truthy(GITHUB_TOKEN) /\ Truthy(ANALYSIS_AUTH_TOKEN)

\* --- display_review_report ---

\* display_review_report was called in this run and has returned or raised
Displayed == pc = "done" /\ review_data # Unset /\ Truthy(review_data)

\* the streamlit calls display_review_report made: those after line 177
DisplayOutput ==
    LET k == CHOOSE i \in DOMAIN ui : ui[i] = st_success("Analysis Complete")
    IN  SubSeq(ui, k + 1, Len(ui))

MissingKey(v, key) == v.kind = "dict" /\ key \notin DOMAIN v.items
HasKey(v, key) == v.kind = "dict" /\ key \in DOMAIN v.items
NoFirst(v) == v.kind = "list" /\ Len(v.elems) = 0
HasFirst(v) == v.kind = "list" /\ Len(v.elems) >= 1

\* candidates[0].content.parts[0].text is absent from rd: a key is missing
\* or an array has no first element, at some step of the path
PathAbsent(rd) ==
    \/ MissingKey(rd, "candidates")
    \/ /\ HasKey(rd, "candidates")
       /\ LET cands == rd.items.candidates IN
          \/ NoFirst(cands)
          \/ /\ HasFirst(cands)
             /\ LET cand == cands.elems[1] IN
                \/ MissingKey(cand, "content")
                \/ /\ HasKey(cand, "content")
                   /\ LET content == cand.items.content IN
                      \/ MissingKey(content, "parts")
                      \/ /\ HasKey(content, "parts")
                         /\ LET parts == content.items.parts IN
                            \/ NoFirst(parts)
                            \/ /\ HasFirst(parts)
                               /\ MissingKey(parts.elems[1], "text")

\* the text at candidates[0].content.parts[0].text, where the path is there
TextOf(rd) ==
    rd.items.candidates.elems[1].items.content.items.parts.elems[1].items.text

PathPresent(rd) ==
    /\ HasKey(rd, "candidates") /\ HasFirst(rd.items.candidates)
    /\ HasKey(rd.items.candidates.elems[1], "content")
    /\ HasKey(rd.items.candidates.elems[1].items.content, "parts")
    /\ HasFirst(rd.items.candidates.elems[1].items.content.items.parts)
    /\ HasKey(rd.items.candidates.elems[1].items.content.items.parts.elems[1], "text")

\* texts that are not JSON documents
NotJson == {"not json", ""}

TextNotJson(rd) ==
    /\ PathPresent(rd)
    /\ TextOf(rd).kind = "str"
    /\ "s" \in DOMAIN TextOf(rd)
    /\ TextOf(rd).s \in NotJson

\* C6: for an envelope in which candidates[0].content.parts[0].text is absent
\* or is not valid JSON, display_review_report does not raise: it reports a
\* format error, shows the envelope unchanged, and renders no summary, no
\* issue group and no corrected-code block.
C6_MalformedEnvelopeReported ==
    (Displayed /\ (PathAbsent(review_data) \/ TextNotJson(review_data))) =>
        /\ DisplayOutput = << st_error("Failed AI Response. Format Error."),
                              st_json(review_data) >>
        /\ CallCount("exception") = 0
        /\ CallCount("subheader") = 0
        /\ CallCount("expander") = 0
        /\ CallCount("code") = 0

\* an envelope whose parts array is empty was displayed
C6_Witness ==
    /\ Displayed
    /\ PathAbsent(review_data)
    /\ HasKey(review_data, "candidates")
    /\ HasFirst(review_data.items.candidates)
    /\ HasKey(review_data.items.candidates.elems[1], "content")
    /\ HasKey(review_data.items.candidates.elems[1].items.content, "parts")
    /\ NoFirst(review_data.items.candidates.elems[1].items.content.items.parts)

\* the report of a displayed envelope whose text is a JSON object
ParsedReport == TextOf(review_data).json

ReportDisplayed ==
    /\ Displayed
    /\ PathPresent(review_data)
    /\ TextOf(review_data).kind = "str"
    /\ "json" \in DOMAIN TextOf(review_data)
    /\ ParsedReport.kind = "dict"

\* the issues of the displayed report, when it has a non-empty list of them
ReportIssues == ParsedReport.items.review_report.elems

IssuesDisplayed ==
    /\ ReportDisplayed
    /\ HasKey(ParsedReport, "review_report")
    /\ HasFirst(ParsedReport.items.review_report)

SeverityOf(issue) ==
    IF "severity" \in DOMAIN issue.items THEN issue.items.severity.s ELSE "-"

GroupLabel == [CRITICAL |-> "Critical Issues", MAJOR |-> "Major Issues",
               MINOR |-> "Minor Issues"]
Recognized == {"CRITICAL", "MAJOR", "MINOR"}

\* positions of the issues of one severity, and of the descriptions rendered
\* inside one expander
IssuesAt(sev) == {i \in DOMAIN ReportIssues : SeverityOf(ReportIssues[i]) = sev}
InGroup(label) ==
    {k \in DOMAIN ui : /\ "within" \in DOMAIN ui[k]
                       /\ ui[k].within = label
                       /\ "text" \in DOMAIN ui[k]
                       /\ ui[k].text = "**Description:** "}
Headings(label) ==
    {k \in DOMAIN ui : ui[k].call = "expander" /\ ui[k].label = label}

\* the group under label shows exactly the issues of severity sev, in order
GroupIs(sev, label) ==
    /\ Cardinality(InGroup(label)) = Cardinality(IssuesAt(sev))
    /\ \A i \in IssuesAt(sev) :
          \E k \in InGroup(label) :
             /\ ui[k].value = ReportIssues[i].items.description
             /\ Cardinality({j \in IssuesAt(sev) : j < i})
                  = Cardinality({m \in InGroup(label) : m < k})
    /\ IF IssuesAt(sev) = {}
       THEN Headings(label) = {}
       ELSE /\ Cardinality(Headings(label)) = 1
            /\ \A h \in Headings(label) :
                  /\ ui[h].count = Cardinality(IssuesAt(sev))
                  /\ \A k \in InGroup(label) : h < k

\* C7: for a non-empty sequence of issues the grouping partitions by
\* exact-match severity: each of the CRITICAL, MAJOR and MINOR groups is the
\* subsequence of the issues with exactly that severity in their original
\* order, its heading shows its element count, an issue is in at most one
\* group, and an issue of any other severity is in no group.
C7_SeverityPartition ==
    IssuesDisplayed =>
        /\ \A sev \in Recognized : GroupIs(sev, GroupLabel[sev])
        /\ \A k \in DOMAIN ui :
              "within" \in DOMAIN ui[k] =>
                  ui[k].within \in {GroupLabel[sev] : sev \in Recognized}
        /\ \A i \in DOMAIN ReportIssues :
              LET shown == {k \in DOMAIN ui :
                               /\ "within" \in DOMAIN ui[k]
                               /\ "text" \in DOMAIN ui[k]
                               /\ ui[k].text = "**Description:** "
                               /\ ui[k].value = ReportIssues[i].items.description}
              IN  Cardinality(shown)
                     = (IF SeverityOf(ReportIssues[i]) \in Recognized THEN 1 ELSE 0)

\* a report with two CRITICAL issues around an unrecognized one was displayed
C7_Witness ==
    /\ IssuesDisplayed
    /\ Len(ReportIssues) = 3
    /\ SeverityOf(ReportIssues[1]) = "CRITICAL"
    /\ SeverityOf(ReportIssues[2]) = "critical"
    /\ SeverityOf(ReportIssues[3]) = "CRITICAL"

\* the corrected-code block of lines 150-153
CodeBlockRendered == Shown(st_subheader("Complete Suggested Code"))

FullCodeGiven ==
    /\ HasKey(ParsedReport, "full_corrected_code")
    /\ Truthy(ParsedReport.items.full_corrected_code)

\* C8: for a parsed report the corrected-code block is rendered if and only
\* if full_corrected_code is present and non-empty, and is then the last
\* thing rendered, whether the issue list is empty or not.
C8_CodeBlockIffPresent ==
    ReportDisplayed =>
        /\ CodeBlockRendered <=> FullCodeGiven
        /\ CodeBlockRendered =>
              ui[Len(ui)] = st_code(ParsedReport.items.full_corrected_code)

\* C9: when the metadata fetch fails the diff fetch is not invoked
\* afterwards: no further network call and no second fetch error follow.
C9_ShortCircuitOnMetadataFailure ==
    pr_data = None =>
        /\ pr_changes = Unset
        /\ GetCount("application/vnd.github.v3.diff") = 0
        /\ ~ \E i \in DOMAIN ui :
               /\ "e" \in DOMAIN ui[i]
               /\ ui[i].text = "Error Fetching PR Diff: "

\* C10: when both fetches succeed and the diff is empty, no fetch failure is
\* reported and the completion client is invoked with the empty diff.
C10_EmptyDiffIsValid ==
    (pc = "done" /\ pr_data.kind = "dict" /\ pr_changes = Str("")) =>
        /\ ~Shown(st_error("Failed to Fetch Request Data. Please check the Details."))
        /\ review_data # Unset

====
